---- MODULE Spec2Model ----
(***************************************************************************)
(* Model of azure_functions/function_app.py: the alert_to_slack HTTP       *)
(* function that receives an Azure Monitor alert, fetches the search       *)
(* results it links to, formats a Slack message and posts it.              *)
(*                                                                         *)
(* Python values are tagged records:                                       *)
(*   [t |-> "none"]              None / JSON null                          *)
(*   [t |-> "str",  s |-> "x"]   a one-line str that is not JSON text      *)
(*   [t |-> "text", lines |-> L] a str given as its "\n"-separated lines,  *)
(*                               each line a sequence of characters        *)
(*   [t |-> "enc",  v |-> V]     a str holding the JSON text of value V    *)
(*   [t |-> "num",  n |-> 1]     an int                                    *)
(*   [t |-> "list", l |-> <<>>]  a list                                    *)
(*   [t |-> "obj",  o |-> f]     a dict, f a function from its keys        *)
(*   [t |-> "raise", exc |-> E]  the evaluation raised exception E         *)
(* A formatted string is the sequence of the pieces an f-string or a join  *)
(* concatenates; a piece that is not a str stands for its str().           *)
(***************************************************************************)
EXTENDS Integers, Sequences, FiniteSets, TLC

VARIABLES
    pc,             \* position of the invocation in alert_to_slack
    FUNCTION_KEY,   \* module global, os.environ.get("AZURE_FUNCTION_KEY")
    req,            \* the HttpRequest: [code, body]
    data,           \* alert_payload.get("data", {})
    api_link,       \* get_details_string: api_link
    search_results, \* get_details_string: search_results
    selected,       \* get_details_string: selected_search_results
    details,        \* alert_to_slack: details
    message,        \* alert_to_slack: message
    response,       \* the HttpResponse returned, or the exception that escaped
    gets,           \* requests.get calls made by this invocation
    posts,          \* requests.post calls made by this invocation
    get_reply,      \* what the search-results GET did
    post_reply,     \* what the Slack POST did
    raw_stack,      \* format_raw_stack: argument
    stack           \* format_raw_stack: return value

vars == <<pc, FUNCTION_KEY, req, data, api_link, search_results, selected,
          details, message, response, gets, posts, get_reply, post_reply,
          raw_stack, stack>>

handler_vars == <<pc, FUNCTION_KEY, req, data, api_link, search_results,
                  selected, details, message, response, gets, posts,
                  get_reply, post_reply>>

(***************************************************************************)
(* Python values                                                           *)
(***************************************************************************)
None == [t |-> "none"]
Str(s) == [t |-> "str", s |-> s]
Text(ls) == [t |-> "text", lines |-> ls]
Enc(v) == [t |-> "enc", v |-> v]
Num(n) == [t |-> "num", n |-> n]
List(l) == [t |-> "list", l |-> l]
Obj(o) == [t |-> "obj", o |-> o]
Raise(e) == [t |-> "raise", exc |-> e]
EmptyDict == Obj([k \in {} |-> None])

IsRaise(v) == v.t = "raise"

\* bool(v): Python truthiness of the values the code tests
Truthy(v) ==
    CASE v.t = "none" -> FALSE
      [] v.t = "str"  -> v.s # ""
      [] v.t = "text" -> v.lines # << <<>> >>
      [] v.t = "enc"  -> TRUE
      [] v.t = "num"  -> v.n # 0
      [] v.t = "list" -> v.l # <<>>
      [] v.t = "obj"  -> DOMAIN v.o # {}
      [] OTHER        -> TRUE

\* container.get(key, default): dict.get; on a non-dict the attribute or the
\* call fails
Get(container, key, default) ==
    CASE IsRaise(container)  -> container
      [] container.t = "obj" ->
            IF key \in DOMAIN container.o THEN container.o[key] ELSE default
      [] OTHER               -> Raise("AttributeError")

\* container[key] on a dict
Item(container, key) ==
    CASE IsRaise(container)  -> container
      [] container.t = "obj" ->
            IF key \in DOMAIN container.o THEN container.o[key]
            ELSE Raise("KeyError")
      [] OTHER               -> Raise("TypeError")

\* container[i] on a list, i counted from 0
Index(container, i) ==
    CASE IsRaise(container)   -> container
      [] container.t = "list" ->
            IF i + 1 \in DOMAIN container.l THEN container.l[i + 1]
            ELSE Raise("IndexError")
      [] container.t = "obj"  -> Raise("KeyError")
      [] OTHER                -> Raise("TypeError")

(***************************************************************************)
(* Text: a str as the sequence of its "\n"-separated lines                 *)
(***************************************************************************)
Iso(d, tm, frac, tz) == [t |-> "iso", date |-> d, time |-> tm, frac |-> frac, tz |-> tz]
IsText(v) == v.t \in {"str", "text", "enc", "iso"}

IsWs(c) == c \in {" ", "\t"}
IsBlank(line) == \A j \in DOMAIN line : IsWs(line[j])
Drop(line, k) == SubSeq(line, k + 1, Len(line))

\* number of whitespace characters a line starts with / ends with
LeadLen(line) ==
    CHOOSE k \in 0..Len(line) :
        /\ \A j \in 1..k : IsWs(line[j])
        /\ (k = Len(line) \/ ~IsWs(line[k + 1]))
TrailLen(line) ==
    CHOOSE k \in 0..Len(line) :
        /\ \A j \in (Len(line) - k + 1)..Len(line) : IsWs(line[j])
        /\ (k = Len(line) \/ ~IsWs(line[Len(line) - k]))

\* textwrap.dedent: whitespace-only lines become empty, then the longest
\* common leading whitespace of the other lines is removed from them
dedent(ls) ==
    LET solid == {i \in DOMAIN ls : ~IsBlank(ls[i])}
        agree(k) == \A i, j \in solid :
                        /\ k <= LeadLen(ls[i])
                        /\ k <= LeadLen(ls[j])
                        /\ SubSeq(ls[i], 1, k) = SubSeq(ls[j], 1, k)
        bound == IF solid = {} THEN 0
                 ELSE LeadLen(ls[CHOOSE i \in solid : TRUE])
        margin == CHOOSE k \in 0..bound :
                      agree(k) /\ \A m \in (k + 1)..bound : ~agree(m)
    IN  [i \in DOMAIN ls |-> IF i \in solid THEN Drop(ls[i], margin) ELSE <<>>]

\* str.strip() of the whole text: leading and trailing whitespace, newlines
\* included, is removed
strip(ls) ==
    LET solid == {i \in DOMAIN ls : ~IsBlank(ls[i])}
    IN  IF solid = {} THEN << <<>> >>
        ELSE LET a == CHOOSE i \in solid : \A j \in solid : i <= j
                 b == CHOOSE i \in solid : \A j \in solid : j <= i
                 cut(i) ==
                     LET l1 == IF i = b
                               THEN SubSeq(ls[i], 1, Len(ls[i]) - TrailLen(ls[i]))
                               ELSE ls[i]
                     IN  IF i = a THEN Drop(l1, LeadLen(ls[i])) ELSE l1
             IN  [i \in 1..(b - a + 1) |-> cut(a + i - 1)]

\* str.splitlines(): the empty string has no lines and a final newline does
\* not open a further line
splitlines(ls) ==
    IF ls = << <<>> >> THEN <<>>
    ELSE IF ls[Len(ls)] = <<>> THEN SubSeq(ls, 1, Len(ls) - 1)
    ELSE ls

Ellipsis == <<" ", ".", ".", ".", " ">>

FormatRawStackBad(raw) ==
    IF ~IsText(raw) THEN Raise("TypeError")
    ELSE IF raw.t # "text" THEN raw
    ELSE LET cleaned == strip(dedent(raw.lines))
             lines == splitlines(cleaned)
         IN  IF Len(lines) > 20
             THEN Text(SubSeq(lines, 1, 10) \o <<Ellipsis>>
                       \o SubSeq(lines, 11, Len(lines)))
             ELSE Text(cleaned)

\* format_raw_stack(raw_stack); a str that is not a "text" is one line with
\* no surrounding whitespace and comes back as it is
format_raw_stack(raw) ==
    IF ~IsText(raw) THEN Raise("TypeError")
    ELSE IF raw.t # "text" THEN raw
    ELSE LET cleaned == strip(dedent(raw.lines))
             lines == splitlines(cleaned)
         IN  IF Len(lines) > 20
             THEN Text(SubSeq(lines, 1, 10) \o <<Ellipsis>>
                       \o SubSeq(lines, Len(lines) - 9, Len(lines)))
             ELSE Text(cleaned)

\* format_item(key, value)
format_item(key, value) ==
    <<Str("*"), Str(key), Str("*: "), IF value = None THEN Str("N/A") ELSE value>>

\* format_alert_date(date_str): datetime.fromisoformat accepts an "iso" str,
\* raises ValueError on any other str and TypeError on a value that is no str
format_alert_date(date_str) ==
    IF ~Truthy(date_str) THEN Str("N/A")
    ELSE IF date_str.t = "iso" THEN Iso(date_str.date, date_str.time, "", "Z")
    ELSE IF IsText(date_str) THEN Str("N/A")
    ELSE Raise("TypeError")

(***************************************************************************)
(* The functions of function_app.py                                        *)
(***************************************************************************)
PRODUCTION_ALERT_RULE == Str("qr-error")

NoResponse == [kind |-> "none", status |-> 0, body |-> <<>>, exc |-> ""]
HttpResponse(body, status_code) ==
    [kind |-> "http", status |-> status_code, body |-> body, exc |-> ""]
\* an exception that leaves alert_to_slack: the function returns no response
Unhandled(e) == [kind |-> "exception", status |-> 0, body |-> <<>>, exc |-> e]

\* the first raised exception among the values of a sequence, None if none
FirstRaise(seq) ==
    IF \E i \in DOMAIN seq : IsRaise(seq[i])
    THEN seq[CHOOSE i \in DOMAIN seq :
                 IsRaise(seq[i]) /\ \A j \in 1..(i - 1) : ~IsRaise(seq[j])]
    ELSE None

ValidateFunctionKeyNoCheck(key, function_key) ==
    IF ~Truthy(key)
    THEN HttpResponse(<<Str("Missing code authentication.")>>, 401)
    ELSE NoResponse

\* validate_function_key(key), FUNCTION_KEY passed in: a response when the
\* validation fails, NoResponse (None) when it succeeds
validate_function_key(key, function_key) ==
    IF ~Truthy(key)
    THEN HttpResponse(<<Str("Missing code authentication.")>>, 401)
    ELSE IF key # function_key
    THEN HttpResponse(<<Str("Unauthorized: invalid code.")>>, 403)
    ELSE NoResponse

\* req.get_json(): the decoded body, ValueError when the body is not JSON text
get_json(body) == IF body.t = "enc" THEN body.v ELSE Raise("ValueError")

ParseRequestNoCatch(body) ==
    LET alert_payload == get_json(body)
    IN  Get(alert_payload, "data", EmptyDict)

\* alert_to_slack, lines 202-209: the 400 response for a body that is not
\* JSON, else data = alert_payload.get("data", {}) (or the exception raised)
parse_request(body) ==
    LET alert_payload == get_json(body)
    IN  IF alert_payload = Raise("ValueError")
        THEN HttpResponse(<<Str("Request body is not valid JSON.")>>, 400)
        ELSE Get(alert_payload, "data", EmptyDict)

\* get_details_string, lines 136-138: api_link
derive_api_link(d) ==
    LET alert_context == Get(d, "alertContext", EmptyDict)
        condition == Get(alert_context, "condition", EmptyDict)
        all_of == Get(condition, "allOf", List(<<EmptyDict>>))
    IN  Get(Index(all_of, 0), "linkToSearchResultsAPI", Str("#"))

\* a URL requests can send a request to; for "#" requests.get raises
\* MissingSchema, a RequestException, before anything is sent
IsUrl(link) == link.t = "str" /\ link.s # "#" /\ link.s # ""

FetchError == Obj([error |-> Str("Failed to fetch log details.")])

FetchSearchResultsNoCatch(reply) ==
    IF reply.kind \in {"transport", "status"}
    THEN Raise("RequestException")
    ELSE IF reply.kind = "notjson"
    THEN Raise("ValueError")
    ELSE LET tables == Item(reply.json, "tables")
         IN  IF IsRaise(tables) THEN tables
             ELSE IF Truthy(tables) THEN Index(tables, 0)
             ELSE EmptyDict

\* fetch_search_results(api_link), given what requests.get did: reply.kind is
\* "transport" (RequestException from requests.get), "status" (HTTPError from
\* raise_for_status), "notjson" (response.json() failed: a RequestException
\* in requests >= 2.27, reply.caught, and a plain ValueError before) or "ok"
\* with the decoded body reply.json
fetch_search_results(reply) ==
    IF reply.kind \in {"transport", "status"}
    THEN FetchError
    ELSE IF reply.kind = "notjson"
    THEN IF reply.caught THEN FetchError ELSE Raise("ValueError")
    ELSE LET tables == Item(reply.json, "tables")
         IN  IF IsRaise(tables) THEN tables
             ELSE IF Truthy(tables) THEN Index(tables, 0)
             ELSE EmptyDict

\* key in container, for the containers a decoded table can be
In(key, container) ==
    CASE container.t = "obj"  -> key \in DOMAIN container.o
      [] container.t = "list" -> \E i \in DOMAIN container.l : container.l[i] = Str(key)
      [] container.t = "str"  -> container.s = key
      [] OTHER                -> FALSE
CanContain(container) == container.t \in {"obj", "list", "str", "text", "enc", "iso"}

selected_columns == <<"outerMessage", "details">>

\* list.index(x): the first position of x counted from 1, 0 when absent
\* (where Python raises ValueError)
ListIndex(seq, x) ==
    IF \E i \in DOMAIN seq : seq[i] = x
    THEN CHOOSE i \in DOMAIN seq : seq[i] = x /\ \A j \in 1..(i - 1) : seq[j] # x
    ELSE 0

DictUpdateKeepOld(acc, entry) ==
    [k \in DOMAIN acc \cup DOMAIN entry |->
        IF k \in DOMAIN acc THEN acc[k] ELSE entry[k]]

\* dict.update: the keys of entry replace those of acc
DictUpdate(acc, entry) ==
    [k \in DOMAIN acc \cup DOMAIN entry |->
        IF k \in DOMAIN entry THEN entry[k] ELSE acc[k]]

\* select_search_results, the loop of lines 99-102 over the rows left
RECURSIVE SelectRows(_, _, _)
SelectRows(rows, indexes, acc) ==
    IF rows = <<>> THEN Obj(acc)
    ELSE LET row == Head(rows)
             cells == [i \in DOMAIN selected_columns |->
                          Index(row, indexes[i] - 1)]
             entry == [col \in {selected_columns[i] : i \in DOMAIN selected_columns} |->
                          cells[ListIndex(selected_columns, col)]]
         IN  IF FirstRaise(cells) # None THEN FirstRaise(cells)
             ELSE SelectRows(Tail(rows), indexes, DictUpdate(acc, entry))

\* select_search_results(data)
select_search_results(d) ==
    LET json_columns == Item(d, "columns")
        names == IF IsRaise(json_columns) THEN <<json_columns>>
                 ELSE IF json_columns.t # "list" THEN <<Raise("TypeError")>>
                 ELSE [i \in DOMAIN json_columns.l |-> Item(json_columns.l[i], "name")]
        rows == Item(d, "rows")
        indexes == [i \in DOMAIN selected_columns |->
                       ListIndex(names, Str(selected_columns[i]))]
    IN  IF FirstRaise(names) # None THEN FirstRaise(names)
        ELSE IF IsRaise(rows) THEN rows
        ELSE IF \E i \in DOMAIN indexes : indexes[i] = 0 THEN Raise("ValueError")
        ELSE IF rows.t # "list" THEN Raise("TypeError")
        ELSE SelectRows(rows.l, indexes, [k \in {} |-> None])

\* the three backquotes that open and close a Slack code block
CodeFence == Str("(3 backquotes)")

\* a formatted str: the pieces it was put together from
Fmt(p) == [t |-> "fstr", p |-> p]

NoDetails == Fmt(<<Str("_No additional details found._\n")>>)

\* json.loads(s): the decoded value, JSONDecodeError for a str that is not
\* JSON text, TypeError for a value that is no str
json_loads(v) ==
    IF v.t = "enc" THEN v.v
    ELSE IF IsText(v) THEN Raise("JSONDecodeError")
    ELSE Raise("TypeError")

\* format_search_results(data): the pieces of formatted_message
format_search_results(d) ==
    IF ~Truthy(d) THEN NoDetails
    ELSE LET msg == Get(d, "outerMessage", Str(""))
             line1 == format_item("Message", msg)
             det == Get(d, "details", Str(""))
             parsed == json_loads(det)
             details_item == Index(parsed, 0)
             rawstack == Get(details_item, "rawStack", Str(""))
             stk == format_raw_stack(rawstack)
         IN  IF parsed = Raise("JSONDecodeError")
             THEN Fmt(line1 \o <<Str("\n")>> \o format_item("Details", det) \o <<Str("\n")>>)
             ELSE IF IsRaise(parsed) THEN parsed
             ELSE IF parsed.t = "list"
             THEN IF IsRaise(details_item) THEN details_item
                  ELSE IF IsRaise(rawstack) THEN rawstack
                  ELSE IF IsRaise(stk) THEN stk
                  ELSE Fmt(line1 \o <<Str("\n")>>
                           \o <<Str("*Details*:\n"), CodeFence, Str("\n"), stk, Str("\n"), CodeFence>>
                           \o <<Str("\n")>>)
             ELSE Fmt(line1 \o <<Str("\n")>> \o format_item("Details", parsed) \o <<Str("\n")>>)

\* get_details_string, line 140: selected_search_results
select_or_empty(results) ==
    IF ~CanContain(results) THEN Raise("TypeError")
    ELSE IF In("error", results) THEN EmptyDict
    ELSE select_search_results(results)

Separator == Str("---------------------------------------------------\n")
LinkText == Str("|Click here to investigate in Azure Portal>")

BuildSlackMessageHashId(d, det) ==
    LET essentials == Get(d, "essentials", EmptyDict)
        alert_id == Get(essentials, "alertId", Str("#"))
        alert_rule == Get(essentials, "alertRule", Str("N/A"))
        emoji_prefix == IF alert_rule = PRODUCTION_ALERT_RULE
                        THEN Str("(U+1F6A8) ") ELSE Str("")
        severity == Get(essentials, "severity", Str("N/A"))
        fired_date_time == format_alert_date(Get(essentials, "firedDateTime", None))
        investigation_link == Get(essentials, "investigationLink", Str("#"))
    IN  IF IsRaise(essentials) THEN essentials
        ELSE IF IsRaise(fired_date_time) THEN fired_date_time
        ELSE Fmt(<<emoji_prefix, Str("*Azure Alert Fired: "), alert_rule, Str("*\n\n")>>
                 \o format_item("Severity", severity) \o <<Str("\n")>>
                 \o format_item("Date", fired_date_time) \o <<Str("\n")>>
                 \o format_item("Alert ID", alert_id) \o <<Str("\n\n")>>
                 \o <<Separator>>
                 \o det.p
                 \o <<Str("<"), investigation_link, LinkText>>)

\* build_slack_message(data, details): the pieces of message; the emoji of
\* line 155 is written by its code point
build_slack_message(d, det) ==
    LET essentials == Get(d, "essentials", EmptyDict)
        alert_id == Get(essentials, "alertId", Str("N/A"))
        alert_rule == Get(essentials, "alertRule", Str("N/A"))
        emoji_prefix == IF alert_rule = PRODUCTION_ALERT_RULE
                        THEN Str("(U+1F6A8) ") ELSE Str("")
        severity == Get(essentials, "severity", Str("N/A"))
        fired_date_time == format_alert_date(Get(essentials, "firedDateTime", None))
        investigation_link == Get(essentials, "investigationLink", Str("#"))
    IN  IF IsRaise(essentials) THEN essentials
        ELSE IF IsRaise(fired_date_time) THEN fired_date_time
        ELSE Fmt(<<emoji_prefix, Str("*Azure Alert Fired: "), alert_rule, Str("*\n\n")>>
                 \o format_item("Severity", severity) \o <<Str("\n")>>
                 \o format_item("Date", fired_date_time) \o <<Str("\n")>>
                 \o format_item("Alert ID", alert_id) \o <<Str("\n\n")>>
                 \o <<Separator>>
                 \o det.p
                 \o <<Str("<"), investigation_link, LinkText>>)

SendToSlackAlwaysOk(reply) ==
    HttpResponse(<<Str("Alert successfully forwarded to Slack.")>>, 200)

\* send_to_slack(message), given what requests.post did: reply.kind is "ok"
\* (a 2xx status), "status" (HTTPError from raise_for_status) or "transport"
\* (RequestException from requests.post); reply.err is str(e)
send_to_slack(reply) ==
    IF reply.kind = "ok"
    THEN HttpResponse(<<Str("Alert successfully forwarded to Slack.")>>, 200)
    ELSE HttpResponse(<<Str("Error sending to Slack: "), Str(reply.err)>>, 500)

Digits == <<"0", "1", "2", "3", "4", "5", "6", "7", "8", "9">>
Spaces(k) == [j \in 1..k |-> " "]
\* the i-th stack frame, indented by k spaces
Frame(i, k) == Spaces(k) \o <<"a", "t", Digits[((i \div 10) % 10) + 1], Digits[(i % 10) + 1]>>

(***************************************************************************)
(* Requests and replies                                                    *)
(***************************************************************************)
Absent == [t |-> "absent"]
\* the dict of the keys of f whose value is not Absent
Fields(f) == Obj([k \in {x \in DOMAIN f : f[x] # Absent} |-> f[k]])

Codes == {None, Str(""), Str("k1"), Str("k2")}
Keys == {Str("k1"), None}

EssentialKeys == {"alertId", "alertRule", "severity", "firedDateTime", "investigationLink"}
FiredDate == Iso("2024-01-01", "10:00:00", "123456", "+00:00")
EssentialValue(k, rule, date) ==
    CASE k = "alertId"           -> Str("/subscriptions/s1/alerts/a1")
      [] k = "alertRule"         -> rule
      [] k = "severity"          -> Str("Sev1")
      [] k = "firedDateTime"     -> date
      [] k = "investigationLink" -> Str("https://portal.azure.com/a1")
Essentials(keys, rule, date) == Obj([k \in keys |-> EssentialValue(k, rule, date)])

ApiLink == Str("https://api.applicationinsights.io/v1/apps/a/query")
AllOf(l) == Obj([condition |-> Obj([allOf |-> List(l)])])
Contexts ==
    { Absent,
      None,
      EmptyDict,
      Obj([condition |-> EmptyDict]),
      AllOf(<<>>),
      AllOf(<<EmptyDict>>),
      AllOf(<<Obj([linkToSearchResultsAPI |-> ApiLink])>>) }

HandlerEssentials ==
    { Absent,
      EmptyDict,
      Essentials(EssentialKeys, PRODUCTION_ALERT_RULE, FiredDate) }

Bodies ==
    {Str("not json"), Enc(List(<<>>)), Enc(EmptyDict), Enc(Obj([data |-> None]))}
    \cup {Enc(Obj([data |-> Fields([essentials |-> e, alertContext |-> c])])) :
             e \in HandlerEssentials, c \in Contexts}

ShortStack == Text(<<<<" ", "a", "t", "1">>, <<" ", "a", "t", "2">>>>)
DetailCells ==
    { Enc(Obj([x |-> Num(1)])),
      Enc(None),
      Enc(List(<<>>)),
      Enc(List(<<EmptyDict>>)),
      Enc(List(<<Str("frame")>>)),
      Enc(List(<<Obj([rawStack |-> None])>>)),
      Enc(List(<<Obj([rawStack |-> ShortStack])>>)),
      Enc(List(<<Obj([rawStack |-> Text([i \in 1..25 |-> Frame(i, 4)])])>>)),
      Str("boom details"),
      Str(""),
      None }

Columns(names) ==
    List([i \in DOMAIN names |-> Obj([name |-> Str(names[i]), type |-> Str("string")])])
Cell(name, msg, det) ==
    CASE name = "outerMessage" -> msg
      [] name = "details"      -> det
      [] OTHER                 -> Str("p1")
Row(names, msg, det) == List([i \in DOMAIN names |-> Cell(names[i], msg, det)])

GoodColumns == {<<"outerMessage", "details">>, <<"problemId", "details", "outerMessage">>}
HandlerTables ==
    { Obj([columns |-> Columns(<<"outerMessage">>), rows |-> List(<<List(<<Str("boom")>>)>>)]),
      Obj([columns |-> Columns(<<"outerMessage", "details">>)]),
      Obj([rows |-> List(<<>>)]),
      Obj([columns |-> Columns(<<"outerMessage", "details">>),
           rows |-> List(<<List(<<Str("boom")>>)>>)]) }
    \cup {Obj([columns |-> Columns(ns), rows |-> List(<<>>)]) : ns \in GoodColumns}
    \cup {Obj([columns |-> Columns(ns), rows |-> List(<<Row(ns, m, d)>>)]) :
             ns \in GoodColumns, m \in {Str("boom"), None}, d \in DetailCells}
    \cup {Obj([columns |-> Columns(ns),
               rows |-> List(<<Row(ns, Str("first"), Str("boom details")),
                               Row(ns, Str("boom"), d)>>)]) :
             ns \in GoodColumns, d \in DetailCells}

GetReply(kind, caught, json) == [kind |-> kind, caught |-> caught, json |-> json]
GetReplies ==
    { GetReply("transport", TRUE, None),
      GetReply("status", TRUE, None),
      GetReply("notjson", TRUE, None),
      GetReply("notjson", FALSE, None),
      GetReply("ok", TRUE, EmptyDict),
      GetReply("ok", TRUE, Obj([tables |-> List(<<>>)])),
      GetReply("ok", TRUE, Obj([tables |-> List(<<None>>)])) }
    \cup {GetReply("ok", TRUE, Obj([tables |-> List(<<tb>>)])) : tb \in HandlerTables}

PostReplies ==
    { [kind |-> "ok", err |-> ""],
      [kind |-> "status", err |-> "500 Server Error"],
      [kind |-> "transport", err |-> "Connection refused"] }

(***************************************************************************)
(* One invocation of alert_to_slack: Spec                                  *)
(***************************************************************************)
Init ==
    /\ pc = "validate"
    /\ FUNCTION_KEY \in Keys
    /\ req \in [code : Codes, body : Bodies]
    /\ data = None
    /\ api_link = None
    /\ search_results = None
    /\ selected = None
    /\ details = None
    /\ message = None
    /\ response = NoResponse
    /\ gets = 0
    /\ posts = 0
    /\ get_reply = None
    /\ post_reply = None
    /\ raw_stack = None
    /\ stack = None

\* the exception e leaves alert_to_slack
Escape(e) ==
    /\ pc' = "done"
    /\ response' = Unhandled(e.exc)

\* lines 196-200
Validate ==
    /\ pc = "validate"
    /\ LET auth_response == validate_function_key(req.code, FUNCTION_KEY)
       IN  IF auth_response # NoResponse
           THEN pc' = "done" /\ response' = auth_response
           ELSE pc' = "parse" /\ UNCHANGED response
    /\ UNCHANGED <<FUNCTION_KEY, req, data, api_link, search_results, selected,
                   details, message, gets, posts, get_reply, post_reply,
                   raw_stack, stack>>

\* lines 202-214; the log line of 211-214 changes no state
ParseRequest ==
    /\ pc = "parse"
    /\ LET d == parse_request(req.body)
       IN  IF "kind" \in DOMAIN d
           THEN pc' = "done" /\ response' = d /\ UNCHANGED data
           ELSE IF IsRaise(d) THEN Escape(d) /\ UNCHANGED data
           ELSE pc' = "link" /\ data' = d /\ UNCHANGED response
    /\ UNCHANGED <<FUNCTION_KEY, req, api_link, search_results, selected,
                   details, message, gets, posts, get_reply, post_reply,
                   raw_stack, stack>>

\* get_details_string, lines 136-138
DeriveApiLink ==
    /\ pc = "link"
    /\ LET link == derive_api_link(data)
       IN  IF IsRaise(link) THEN Escape(link) /\ UNCHANGED api_link
           ELSE pc' = "fetch" /\ api_link' = link /\ UNCHANGED response
    /\ UNCHANGED <<FUNCTION_KEY, req, data, search_results, selected,
                   details, message, gets, posts, get_reply, post_reply,
                   raw_stack, stack>>

\* get_details_string, line 139: the one requests.get and what comes back
FetchSearchResults ==
    /\ pc = "fetch"
    /\ \E reply \in GetReplies :
        /\ IsUrl(api_link) \/ reply.kind = "transport"
        /\ get_reply' = reply
        /\ gets' = gets + 1
        /\ LET results == fetch_search_results(reply)
           IN  IF IsRaise(results) THEN Escape(results) /\ UNCHANGED search_results
               ELSE pc' = "select" /\ search_results' = results /\ UNCHANGED response
    /\ UNCHANGED <<FUNCTION_KEY, req, data, api_link, selected, details,
                   message, posts, post_reply, raw_stack, stack>>

\* get_details_string, line 140
SelectSearchResults ==
    /\ pc = "select"
    /\ LET sel == select_or_empty(search_results)
       IN  IF IsRaise(sel) THEN Escape(sel) /\ UNCHANGED selected
           ELSE pc' = "format" /\ selected' = sel /\ UNCHANGED response
    /\ UNCHANGED <<FUNCTION_KEY, req, data, api_link, search_results, details,
                   message, gets, posts, get_reply, post_reply, raw_stack, stack>>

\* get_details_string, lines 141-142
FormatSearchResults ==
    /\ pc = "format"
    /\ LET str == format_search_results(selected)
       IN  IF IsRaise(str) THEN Escape(str) /\ UNCHANGED details
           ELSE pc' = "build" /\ details' = str /\ UNCHANGED response
    /\ UNCHANGED <<FUNCTION_KEY, req, data, api_link, search_results, selected,
                   message, gets, posts, get_reply, post_reply, raw_stack, stack>>

\* line 217
BuildSlackMessage ==
    /\ pc = "build"
    /\ LET msg == build_slack_message(data, details)
       IN  IF IsRaise(msg) THEN Escape(msg) /\ UNCHANGED message
           ELSE pc' = "send" /\ message' = msg /\ UNCHANGED response
    /\ UNCHANGED <<FUNCTION_KEY, req, data, api_link, search_results, selected,
                   details, gets, posts, get_reply, post_reply, raw_stack, stack>>

\* lines 218-220: the one requests.post and the response returned
SendToSlack ==
    /\ pc = "send"
    /\ \E reply \in PostReplies :
        /\ post_reply' = reply
        /\ posts' = posts + 1
        /\ response' = send_to_slack(reply)
    /\ pc' = "done"
    /\ UNCHANGED <<FUNCTION_KEY, req, data, api_link, search_results, selected,
                   details, message, gets, get_reply, raw_stack, stack>>

Next ==
    \/ Validate
    \/ ParseRequest
    \/ DeriveApiLink
    \/ FetchSearchResults
    \/ SelectSearchResults
    \/ FormatSearchResults
    \/ BuildSlackMessage
    \/ SendToSlack

Spec == Init /\ [][Next]_vars

Authenticated == Truthy(req.code) /\ req.code = FUNCTION_KEY

\* C1: a missing or empty credential ends with 401 and a non-empty credential
\* that differs from the configured secret ends with 403; in both cases no
\* search-results GET and no Slack POST is made, whatever the body is.
C1_AuthRejected ==
    /\ ~Truthy(req.code) =>
        /\ pc \in {"validate", "done"}
        /\ gets = 0 /\ posts = 0
        /\ pc = "done" => response.kind = "http" /\ response.status = 401
    /\ (Truthy(req.code) /\ req.code # FUNCTION_KEY) =>
        /\ pc \in {"validate", "done"}
        /\ gets = 0 /\ posts = 0
        /\ pc = "done" => response.kind = "http" /\ response.status = 403

\* a wrong credential was refused with 403 on a request whose body names a
\* search-results link
C1_Witness ==
    /\ pc = "done"
    /\ req.code = Str("k2")
    /\ FUNCTION_KEY = Str("k1")
    /\ response.status = 403
    /\ req.body.t = "enc"
    /\ derive_api_link(Get(req.body.v, "data", EmptyDict)) = ApiLink

\* C2: an authenticated request whose body is not valid JSON ends with 400
\* and makes neither the search-results GET nor the Slack POST.
C2_BadJson ==
    (Authenticated /\ req.body.t # "enc") =>
        /\ pc \in {"validate", "parse", "done"}
        /\ gets = 0 /\ posts = 0
        /\ pc = "done" => response.kind = "http" /\ response.status = 400

\* an authenticated request with a body that is not JSON got its 400
C2_Witness ==
    /\ pc = "done"
    /\ Authenticated
    /\ req.body = Str("not json")
    /\ response.status = 400

FetchFailed == get_reply # None /\ get_reply.kind \in {"transport", "status"}

C4_OneStatus ==
    /\ posts <= 1
    /\ pc = "done" =>
        /\ response.kind = "http"
        /\ response.status \in {200, 400, 401, 403, 500}

\* C5: once the delivery step is reached the status is 200 exactly when the
\* one Slack POST got a 2xx status; a non-2xx reply or a transport failure
\* gives 500 with the error text in the body; the POST is not made again.
C5_Delivery ==
    /\ posts <= 1
    /\ pc = "send" => posts = 0
    /\ posts = 1 =>
        /\ pc = "done"
        /\ response.kind = "http"
        /\ response.status = 200 <=> post_reply.kind = "ok"
        /\ post_reply.kind # "ok" =>
              /\ response.status = 500
              /\ \E i \in DOMAIN response.body : response.body[i] = Str(post_reply.err)

\* Slack answered the POST with a non-2xx status and the handler returned 500
C5_Witness ==
    /\ pc = "done"
    /\ posts = 1
    /\ post_reply.kind = "status"
    /\ response.status = 500

\* the shapes of data.alertContext the claim lists: absent, or an object
\* without 'condition', without 'allOf', with an empty 'allOf', or with a
\* first element of 'allOf' with or without 'linkToSearchResultsAPI'
ListedContext(d) ==
    /\ d.t = "obj"
    /\ "alertContext" \in DOMAIN d.o => d.o["alertContext"].t = "obj"

\* the link when the payload holds one, the sentinel otherwise
ExpectedLink(d) ==
    LET has(v, k) == v.t = "obj" /\ k \in DOMAIN v.o
    IN  IF /\ has(d, "alertContext")
           /\ has(d.o["alertContext"], "condition")
           /\ has(d.o["alertContext"].o["condition"], "allOf")
           /\ d.o["alertContext"].o["condition"].o["allOf"].t = "list"
           /\ d.o["alertContext"].o["condition"].o["allOf"].l # <<>>
           /\ has(d.o["alertContext"].o["condition"].o["allOf"].l[1], "linkToSearchResultsAPI")
        THEN d.o["alertContext"].o["condition"].o["allOf"].l[1].o["linkToSearchResultsAPI"]
        ELSE Str("#")

\* C6: for every listed shape of data.alertContext, deriving the link does
\* not fail: the link is used when present, "#" otherwise, and the handler
\* goes on to the fetch.
C6_LinkNeverCrashes ==
    (pc \notin {"validate", "parse", "link", "off"} /\ ListedContext(data)) =>
        /\ api_link = ExpectedLink(data)
        /\ gets = 1 \/ pc = "fetch"

(***************************************************************************)
(* select_search_results on its own: SpecSelect                            *)
(***************************************************************************)
MaxCols == 3
MaxRows == 2

ColumnNames == {"outerMessage", "details", "problemId"}
CellValues == {Str("boom"), Enc(Obj([x |-> Num(1)]))}

\* the column lists: up to MaxCols names, none twice
ColumnLists ==
    {ns \in UNION {[1..k -> ColumnNames] : k \in 1..MaxCols} :
        \A i, j \in DOMAIN ns : ns[i] = ns[j] => i = j}
\* the rows of a table of w columns: up to MaxRows rows of w cells, or of
\* one cell less
RowLists(w) ==
    LET rows == {List(r) : r \in [1..w -> CellValues] \cup [1..(w - 1) -> CellValues]}
    IN  UNION {[1..k -> rows] : k \in 0..MaxRows}
SelectTables ==
    UNION {{Obj([columns |-> Columns(ns), rows |-> List(rs)]) : rs \in RowLists(Len(ns))} :
              ns \in ColumnLists}

InitSelect ==
    /\ pc = "select"
    /\ search_results \in SelectTables
    /\ FUNCTION_KEY = None
    /\ req = None
    /\ data = None
    /\ api_link = None
    /\ selected = None
    /\ details = None
    /\ message = None
    /\ response = NoResponse
    /\ gets = 0
    /\ posts = 0
    /\ get_reply = None
    /\ post_reply = None
    /\ raw_stack = None
    /\ stack = None

NextSelect == SelectSearchResults

SpecSelect == InitSelect /\ [][NextSelect]_vars

\* the table in search_results: its column names, its rows, the position of a
\* column name
TableNames == [i \in DOMAIN search_results.o["columns"].l |->
                  search_results.o["columns"].l[i].o["name"].s]
TableRows == search_results.o["rows"].l
Position(col) == CHOOSE i \in DOMAIN TableNames : TableNames[i] = col
Wanted == {"outerMessage", "details"}
WantedPresent == {col \in Wanted : \E i \in DOMAIN TableNames : TableNames[i] = col}
RowsComplete == \A i \in DOMAIN TableRows : Len(TableRows[i].l) = Len(TableNames)

\* C7: a wanted column that the table's columns do not name is a per-field
\* omission: select_search_results does not fail, leaves that field out and
\* still returns the other wanted fields.
C7_MissingColumnOmitted ==
    (pc # "select" /\ WantedPresent # Wanted /\ RowsComplete) =>
        /\ response.kind # "exception"
        /\ selected.t = "obj"
        /\ DOMAIN selected.o \subseteq WantedPresent
        /\ TableRows # <<>> => DOMAIN selected.o = WantedPresent

MessageDates == {FiredDate, Iso("2024-01-01", "00:00:00", "", ""), Str("not-a-date"), Str("")}
MessageEssentials ==
    {Absent} \cup
    {Essentials(keys, rule, date) :
        keys \in SUBSET EssentialKeys,
        rule \in {PRODUCTION_ALERT_RULE, Str("cpu-high")},
        date \in MessageDates}
MessageDetails ==
    {NoDetails, Fmt(format_item("Message", Str("boom")) \o <<Str("\n")>>)}

InitMessage ==
    /\ pc = "build"
    /\ data \in {Fields([essentials |-> e]) : e \in MessageEssentials}
    /\ details \in MessageDetails
    /\ FUNCTION_KEY = None
    /\ req = None
    /\ api_link = None
    /\ search_results = None
    /\ selected = None
    /\ message = None
    /\ response = NoResponse
    /\ gets = 0
    /\ posts = 0
    /\ get_reply = None
    /\ post_reply = None
    /\ raw_stack = None
    /\ stack = None

NextMessage == BuildSlackMessage

SpecMessage == InitMessage /\ [][NextMessage]_vars

\* the essentials field k of data is missing
Missing(k) == ~("essentials" \in DOMAIN data.o /\ k \in DOMAIN data.o["essentials"].o)
Given(k) == data.o["essentials"].o[k]

\* every line of the template is there, around the values v
Template(v, det) ==
    <<v.prefix, Str("*Azure Alert Fired: "), v.alertRule, Str("*\n\n"),
      Str("*"), Str("Severity"), Str("*: "), v.severity, Str("\n"),
      Str("*"), Str("Date"), Str("*: "), v.firedDateTime, Str("\n"),
      Str("*"), Str("Alert ID"), Str("*: "), v.alertId, Str("\n\n"),
      Str("---------------------------------------------------\n")>>
    \o det
    \o <<Str("<"), v.investigationLink, Str("|Click here to investigate in Azure Portal>")>>

\* what the message shows for each field when a missing investigation link
\* shows as `link`
Shown(link) ==
    [ prefix |-> IF ~Missing("alertRule") /\ Given("alertRule") = Str("qr-error")
                 THEN Str("(U+1F6A8) ") ELSE Str(""),
      alertRule |-> IF Missing("alertRule") THEN Str("N/A") ELSE Given("alertRule"),
      severity |-> IF Missing("severity") THEN Str("N/A") ELSE Given("severity"),
      alertId |-> IF Missing("alertId") THEN Str("N/A") ELSE Given("alertId"),
      firedDateTime |->
          IF Missing("firedDateTime") THEN Str("N/A")
          ELSE IF Given("firedDateTime").t = "iso"
          THEN [Given("firedDateTime") EXCEPT !.frac = "", !.tz = "Z"]
          ELSE Str("N/A"),
      investigationLink |->
          IF Missing("investigationLink") THEN link ELSE Given("investigationLink") ]

MaxLines == 24
MaxIndentStep == 2

\* a raw stack of n frames: every frame indented by 2 + (i * step) % 3 spaces,
\* optionally a whitespace-only line before, after and after the third
\* frame, and optionally a space at the end of the last frame
StackText(n, step, lead, mid, trail) ==
    LET frames == [i \in 1..n |-> Frame(i, 2 + ((i * step) % 3))]
        body == IF mid /\ n >= 3
                THEN SubSeq(frames, 1, 3) \o << <<" ", " ", " ">> >>
                     \o SubSeq(frames, 4, n)
                ELSE frames
    IN  Text((IF lead THEN << <<>>, <<" ">> >> ELSE <<>>)
             \o body
             \o (IF trail THEN << <<" ", " ">>, <<>> >> ELSE <<>>))

StackInputs ==
    {StackText(n, step, lead, mid, trail) :
        n \in 0..MaxLines, step \in 0..MaxIndentStep,
        lead \in BOOLEAN, mid \in BOOLEAN, trail \in BOOLEAN}

HandlerOff ==
    /\ pc = "off"
    /\ FUNCTION_KEY = None
    /\ req = None
    /\ data = None
    /\ api_link = None
    /\ search_results = None
    /\ selected = None
    /\ details = None
    /\ message = None
    /\ response = NoResponse
    /\ gets = 0
    /\ posts = 0
    /\ get_reply = None
    /\ post_reply = None

InitStack ==
    /\ HandlerOff
    /\ raw_stack \in StackInputs
    /\ stack = None

\* one call of format_raw_stack(raw_stack)
FormatRawStack ==
    /\ pc = "off"
    /\ stack = None
    /\ stack' = format_raw_stack(raw_stack)
    /\ UNCHANGED <<handler_vars, raw_stack>>

NextStack == FormatRawStack

SpecStack == InitStack /\ [][NextStack]_vars

\* the lines of the cleaned input and of the result
CleanedLines == splitlines(strip(dedent(raw_stack.lines)))
ResultLines == splitlines(stack.lines)

\* C9: a cleaned input of n <= 20 lines comes back unchanged; one of n > 20
\* lines comes back as exactly 21 lines: its first 10 lines, the separator
\* line " ... ", and its last 10 lines.
C9_StackTruncation ==
    (pc = "off" /\ stack # None) =>
        LET n == Len(CleanedLines)
        IN  /\ stack.t = "text"
            /\ n <= 20 => ResultLines = CleanedLines
            /\ n > 20 =>
                /\ Len(ResultLines) = 21
                /\ \A i \in 1..10 : ResultLines[i] = CleanedLines[i]
                /\ ResultLines[11] = <<" ", ".", ".", ".", " ">>
                /\ \A i \in 1..10 : ResultLines[11 + i] = CleanedLines[n - 10 + i]

\* a 25-line cleaned input has been truncated to 21 lines
C9_Witness ==
    /\ pc = "off"
    /\ stack # None
    /\ Len(CleanedLines) = 25
    /\ Len(ResultLines) = 21

====
